---- MODULE Spec2Model ----
(***************************************************************************)
(* Model of rollingwins::calculate_rolling_returns_df                      *)
(* (src/lib/rollingwins/src/lib.rs).                                       *)
(*                                                                         *)
(* One call is run statement by statement (pc), so that the loop, the      *)
(* buffer and the early returns are visible; a second call with the same   *)
(* arguments can follow the first.                                         *)
(*                                                                         *)
(* f64 values are modelled as signed zeros, signed infinities, NaN and     *)
(* reduced signed rationals; a rational stands for the correctly rounded   *)
(* double of that quotient (rounding is deterministic and is not what any  *)
(* property below is about).  A cell of a Float64 column may be null.      *)
(***************************************************************************)
EXTENDS Integers, Sequences, FiniteSets, TLC

\* ------------------------------------------------------------------ bounds
\* longest input column
MaxLen == 3

\* window lengths tried: 0 (nothing in the signature forbids it) up to one
\* more than the longest column
KMax == MaxLen + 1

\* one window length of two decimal digits
LargeK == KMax + 10

\* usize arithmetic is done modulo this when overflow checks are off.  It
\* stands for 2^64, which is beyond the model checker's integers; all that
\* matters is that it exceeds every length and every k.
UsizeModulus == 2^30

\* ------------------------------------------------------------ f64 values
Cell(c, s, n, d) == [cls |-> c, neg |-> s, num |-> n, den |-> d]

\* a missing value of a Float64 column, and the None of Option<f64>
Null == Cell("null", FALSE, 0, 1)

\* a cell of a string column
StrCell == Cell("str", FALSE, 0, 1)

NaN == Cell("nan", FALSE, 0, 1)

Inf(s) == Cell("inf", s, 0, 1)

Zero(s) == Cell("zero", s, 0, 1)

Abs(z) == IF z < 0 THEN -z ELSE z

RECURSIVE Gcd(_, _)
Gcd(a, b) == IF b = 0 THEN a ELSE Gcd(b, a % b)

\* the double nearest to z / d  (d > 0); an exact zero is +0.0
Rat(z, d) ==
    IF z = 0 THEN Zero(FALSE)
    ELSE Cell("fin", z < 0, Abs(z) \div Gcd(Abs(z), d), d \div Gcd(Abs(z), d))

FromInt(z) == Rat(z, 1)

Signed(a) == IF a.neg THEN -a.num ELSE a.num

\* IEEE-754 a - b, round to nearest
fsub(a, b) ==
    CASE a.cls = "nan" \/ b.cls = "nan" -> NaN
      [] a.cls = "inf" /\ b.cls = "inf" -> IF a.neg = b.neg THEN NaN ELSE a
      [] a.cls = "inf" -> a
      [] b.cls = "inf" -> Inf(~b.neg)
      [] a.cls = "zero" /\ b.cls = "zero" -> Zero(a.neg /\ ~b.neg)
      [] a.cls = "zero" -> Cell("fin", ~b.neg, b.num, b.den)
      [] b.cls = "zero" -> a
      [] OTHER -> Rat(Signed(a) * b.den - Signed(b) * a.den, a.den * b.den)

\* IEEE-754 a / b: no trap, x/0 is an infinity, 0/0 is NaN
fdiv(a, b) ==
    CASE a.cls = "nan" \/ b.cls = "nan" -> NaN
      [] a.cls = "inf" /\ b.cls = "inf" -> NaN
      [] a.cls = "inf" -> Inf(a.neg # b.neg)
      [] b.cls = "inf" -> Zero(a.neg # b.neg)
      [] a.cls = "zero" /\ b.cls = "zero" -> NaN
      [] b.cls = "zero" -> Inf(a.neg # b.neg)
      [] a.cls = "zero" -> Zero(a.neg # b.neg)
      [] OTHER -> Cell("fin", a.neg # b.neg,
                       (a.num * b.den) \div Gcd(a.num * b.den, a.den * b.num),
                       (a.den * b.num) \div Gcd(a.num * b.den, a.den * b.num))

\* ------------------------------------------------------------ the inputs
\* the cells an input Float64 column is built from
PriceCells == {Null, NaN, FromInt(0), FromInt(1), FromInt(-2)}

RECURSIVE SeqsUpTo(_, _)
SeqsUpTo(S, n) ==
    IF n = 0 THEN {<<>>}
    ELSE LET shorter == SeqsUpTo(S, n - 1)
         IN  shorter \cup {Append(s, x) : s \in {t \in shorter : Len(t) = n - 1}, x \in S}

Col(nm, dt, vs) == [name |-> nm, dtype |-> dt, vals |-> vs]

\* the tables a caller passes: "price" absent, Float64 or String; "qty"
\* absent or Float64; all columns of one table have the same height
Tables ==
    UNION { { p \o q : p \in {<<>>, <<Col("price", "f64", v)>>,
                              <<Col("price", "str", [j \in 1..Len(v) |-> StrCell])>>},
                       q \in {<<>>, <<Col("qty", "f64", v)>>} }
            : v \in SeqsUpTo(PriceCells, MaxLen) }

ColumnNames == {"price", "qty"}

\* ------------------------------------------------------------- the state
VARIABLES
    pydf,             \* the caller's table: a sequence of columns
    column,           \* argument: the column name
    k,                \* argument: the window length (usize)
    overflow_checks,  \* build profile: TRUE (debug), FALSE (release)
    pc,               \* the statement the call is at
    prices,           \* the Float64 view of the named column
    returns,          \* the Vec<f64> being filled
    capacity,         \* its current capacity
    reserved,         \* the capacity asked of Vec::with_capacity
    grows,            \* reallocations done by push
    i,                \* loop counter
    reads,            \* the indices passed to prices.get so far
    outcome,          \* what the call returned / raised
    result,           \* the table returned on success (else empty)
    call,             \* "first" or "second" call with these arguments
    prev              \* outcome and table of the first call

args == <<pydf, column, k>>

locals == <<prices, returns, capacity, reserved, grows, i, reads>>

vars == <<pydf, column, k, overflow_checks, pc, prices, returns, capacity,
          reserved, grows, i, reads, outcome, result, call, prev>>

Outcome(kd, ex, m) == [kind |-> kd, exc |-> ex, msg |-> m]

Pending == Outcome("pending", "", "")

Ok == Outcome("ok", "", "")

\* PyErr::new::<E, _>(msg), returned through `?` / `return Err`
PyError(ex, m) == Outcome("err", ex, m)

\* a Rust panic inside a #[pyfunction]: unwinds, drops the locals, and
\* reaches the caller as pyo3's PanicException; no table is returned
Panic(m) == Outcome("panic", "PanicException", m)

\* Display of a usize, as format!("{}") prints it
RECURSIVE FormatUsize(_)
FormatUsize(n) ==
    LET digit == <<"0", "1", "2", "3", "4", "5", "6", "7", "8", "9">>
    IN  IF n < 10 THEN digit[n + 1]
        ELSE FormatUsize(n \div 10) \o digit[(n % 10) + 1]

\* Display of the polars error `e` that the two map_err closures append
PolarsError(what, nm) == what \o "(" \o nm \o ")"

\* a lookup that ignores the name and takes the first column
FindColumn_first(df, nm) == IF Len(df) > 0 THEN 1 ELSE 0

\* df.column(name): position of the column of that name, 0 if there is none
FindColumn(df, nm) ==
    IF \E j \in 1..Len(df) : df[j].name = nm
    THEN CHOOSE j \in 1..Len(df) : df[j].name = nm /\ \A h \in 1..(j - 1) : df[h].name # nm
    ELSE 0

\* prices.get(idx): None for a null cell and for an index past the end
Get(ca, idx) == IF idx < Len(ca) THEN ca[idx + 1] ELSE Null

InitLocals ==
    /\ pc = "column"
    /\ prices = <<>>
    /\ returns = <<>>
    /\ capacity = 0
    /\ reserved = 0
    /\ grows = 0
    /\ i = 0
    /\ reads = {}
    /\ outcome = Pending
    /\ result = <<>>

Init ==
    /\ pydf \in Tables
    /\ column \in ColumnNames
    /\ k \in 0..KMax \cup {LargeK}
    /\ overflow_checks \in BOOLEAN
    /\ call = "first"
    /\ prev = <<Pending, <<>>>>
    /\ InitLocals

\* the call ends: pc, outcome and result change, the rest does not
Finish(o, tbl) ==
    /\ pc' = "done"
    /\ outcome' = o
    /\ result' = tbl

\* lines 16-23: df.column(column).map_err(..)?
GetColumn ==
    /\ pc = "column"
    /\ IF FindColumn(pydf, column) = 0
       THEN Finish(PyError("PyValueError",
                "Column '" \o column \o "' not found: "
                    \o PolarsError("ColumnNotFound", column)), <<>>)
       ELSE pc' = "f64" /\ UNCHANGED <<outcome, result>>
    /\ UNCHANGED <<args, overflow_checks, locals, call, prev>>

\* lines 24-30: .f64().map_err(..)?
CastF64 ==
    /\ pc = "f64"
    /\ LET c == pydf[FindColumn(pydf, column)]
       IN  IF c.dtype # "f64"
           THEN /\ Finish(PyError("PyValueError",
                      "Column must be numeric: " \o PolarsError("SchemaMismatch", c.dtype)), <<>>)
                /\ UNCHANGED prices
           ELSE /\ prices' = c.vals
                /\ pc' = "len"
                /\ UNCHANGED <<outcome, result>>
    /\ UNCHANGED <<args, overflow_checks, returns, capacity, reserved, grows,
                   i, reads, call, prev>>

\* the size test with <= for <
TooShort_le(n, kk) == n <= kk

\* line 32: the size test
TooShort(n, kk) == n < kk

\* lines 32-38
CheckLen ==
    /\ pc = "len"
    /\ IF TooShort(Len(prices), k)
       THEN Finish(PyError("PyValueError",
                "Not enough data points. Need at least " \o FormatUsize(k)
                    \o " prices, got " \o FormatUsize(Len(prices))), <<>>)
       ELSE pc' = "alloc" /\ UNCHANGED <<outcome, result>>
    /\ UNCHANGED <<args, overflow_checks, locals, call, prev>>

\* line 41: the argument of Vec::with_capacity (n >= kk here)
ReserveLen(n, kk) == n - kk

\* a buffer that outlives the call and is not cleared
Alloc_reuse ==
    /\ pc = "alloc"
    /\ returns' = returns
    /\ reserved' = ReserveLen(Len(prices), k)
    /\ capacity' = IF capacity > ReserveLen(Len(prices), k) THEN capacity
                    ELSE ReserveLen(Len(prices), k)
    /\ grows' = 0
    /\ i' = 0
    /\ pc' = "loop"
    /\ UNCHANGED <<args, overflow_checks, prices, reads, outcome, result, call, prev>>

\* line 41: a fresh, empty vector of exactly the capacity asked for
Alloc ==
    /\ pc = "alloc"
    /\ returns' = <<>>
    /\ reserved' = ReserveLen(Len(prices), k)
    /\ capacity' = ReserveLen(Len(prices), k)
    /\ grows' = 0
    /\ i' = 0
    /\ pc' = "loop"
    /\ UNCHANGED <<args, overflow_checks, prices, reads, outcome, result, call, prev>>

\* a range that runs one window too far
LoopLast_over(n, kk) == n - kk + 1

\* line 43: the last value of the range 0..=(prices.len() - k)
LoopLast(n, kk) == n - kk

\* the window end taken one row late
EndIndex_late(ii, kk) == (ii + kk) % UsizeModulus

\* line 45: i + k - 1 with overflow checks off
EndIndex(ii, kk) == (ii + kk - 1) % UsizeModulus

\* line 48, Vec::push on a full vector: RawVec::grow_amortized for 8-byte
\* elements (double, at least len + 1, at least 4)
GrownCapacity(cap, len) ==
    LET want == IF 2 * cap > len + 1 THEN 2 * cap ELSE len + 1
    IN  IF want < 4 THEN 4 ELSE want

\* lines 43-49: one iteration of the loop body
LoopIter ==
    /\ pc = "loop"
    /\ i <= LoopLast(Len(prices), k)
    /\ LET start_price == Get(prices, i)
           end_idx     == EndIndex(i, k)
           end_price   == Get(prices, end_idx)
           return_pct  == fdiv(fsub(end_price, start_price), start_price)
           full        == Len(returns) = capacity
       IN  IF start_price = Null
           THEN \* line 44: unwrap of None
                /\ Finish(Panic("called Option::unwrap() on a None value"), <<>>)
                /\ reads' = reads \cup {i}
                /\ UNCHANGED <<returns, capacity, grows, i>>
           ELSE IF i + k < 1 /\ overflow_checks
           THEN \* line 45: 0 - 1 with overflow checks on
                /\ Finish(Panic("attempt to subtract with overflow"), <<>>)
                /\ reads' = reads \cup {i}
                /\ UNCHANGED <<returns, capacity, grows, i>>
           ELSE IF end_price = Null
           THEN \* line 45: unwrap of None
                /\ Finish(Panic("called Option::unwrap() on a None value"), <<>>)
                /\ reads' = reads \cup {i, end_idx}
                /\ UNCHANGED <<returns, capacity, grows, i>>
           ELSE \* lines 47-48
                /\ returns' = Append(returns, return_pct)
                /\ capacity' = IF full THEN GrownCapacity(capacity, Len(returns)) ELSE capacity
                /\ grows' = IF full THEN grows + 1 ELSE grows
                /\ i' = i + 1
                /\ reads' = reads \cup {i, end_idx}
                /\ UNCHANGED <<pc, outcome, result>>
    /\ UNCHANGED <<args, overflow_checks, prices, reserved, call, prev>>

\* line 43: the range is exhausted
LoopExit ==
    /\ pc = "loop"
    /\ i > LoopLast(Len(prices), k)
    /\ pc' = "frame"
    /\ UNCHANGED <<args, overflow_checks, locals, outcome, result, call, prev>>

\* the name with its parts in another order
SeriesName_swapped(nm, kk) == nm \o "_" \o FormatUsize(kk) \o "_day_return"

\* line 51
SeriesName(nm, kk) == nm \o "_return_" \o FormatUsize(kk) \o "_day"

\* lines 52-55: DataFrame::new of a single series cannot fail (no duplicate
\* name, no height mismatch), so the PyRuntimeError branch is never taken
BuildFrame ==
    /\ pc = "frame"
    /\ Finish(Ok, <<Col(SeriesName(column, k), "f64", returns)>>)
    /\ UNCHANGED <<args, overflow_checks, locals, call, prev>>

\* the caller calls again with the same table, column and k.  Each local
\* of the new call gets its value from its own `let`, as in the first call.
CallAgain ==
    /\ pc = "done"
    /\ call = "first"
    /\ call' = "second"
    /\ prev' = <<outcome, result>>
    /\ pc' = "column"
    /\ outcome' = Pending
    /\ result' = <<>>
    /\ reads' = {}
    /\ UNCHANGED <<args, overflow_checks, prices, returns, capacity, reserved, grows, i>>

Next ==
    \/ GetColumn
    \/ CastF64
    \/ CheckLen
    \/ Alloc
    \/ LoopIter
    \/ LoopExit
    \/ BuildFrame
    \/ CallAgain

Spec == Init /\ [][Next]_vars

\* ------------------------------------------------------ reading the state
\* the positions of the input columns named `column`
Named == {j \in 1..Len(pydf) : pydf[j].name = column}

ColumnAbsent == Named = {}

NamedDtype == pydf[CHOOSE j \in Named : TRUE].dtype

\* the input names an existing Float64 column
FloatInput == Named # {} /\ NamedDtype = "f64"

\* its cells c and its row count n
c == pydf[CHOOSE j \in Named : TRUE].vals

n == Len(c)

ValidWindow == FloatInput /\ 1 <= k /\ k <= n

NoMissing == \A j \in 1..n : c[j] # Null

Done == pc = "done"

Succeeded == Done /\ outcome.kind = "ok"

OutVals == result[1].vals

\* (c[w+k-1] - c[w]) / c[w] for the window starting at row w (rows from 0)
WindowReturn(w) == fdiv(fsub(c[w + k], c[w + 1]), c[w + 1])

InsufficientData ==
    PyError("PyValueError",
            "Not enough data points. Need at least " \o ToString(k)
                \o " prices, got " \o ToString(n))

\* ------------------------------------------------------------ the claims

\* C1: with 1 <= k <= n, every row pushed so far is the return of the window
\* starting at its own position (rows are appended in increasing i), and the
\* column of a successful call holds, at row w, (c[w+k-1] - c[w]) / c[w] for
\* every w in 0..n-k.
C1_RowsAreWindows ==
    ValidWindow /\ pc \in {"loop", "frame", "done"} =>
        /\ \A w \in 1..Len(returns) : w - 1 <= n - k /\ returns[w] = WindowReturn(w - 1)
        /\ pc = "loop" => Len(returns) = i
        /\ Succeeded =>
             \A w \in 0..(n - k) : w + 1 <= Len(OutVals) /\ OutVals[w + 1] = WindowReturn(w)

C1_Witness ==
    /\ Succeeded /\ ValidWindow
    /\ k = 2 /\ n = 3
    /\ OutVals = <<WindowReturn(0), WindowReturn(1)>>
    /\ OutVals[1] # OutVals[2]

\* C2: for an existing float column of n rows and 1 <= k <= n, the call ends
\* with an output column of exactly n - k + 1 rows, after exactly n - k + 1
\* iterations.
C2_RowCount ==
    Done /\ ValidWindow =>
        /\ outcome.kind = "ok"
        /\ Len(result) = 1
        /\ Len(OutVals) = n - k + 1
        /\ i = n - k + 1

\* C3: every call ends with a table or with a reported error (ValueError for
\* the argument errors, RuntimeError for the internal one), never otherwise.
C3_TableOrError ==
    Done =>
        \/ outcome.kind = "ok" /\ Len(result) = 1
        \/ outcome.kind = "err" /\ outcome.exc \in {"PyValueError", "PyRuntimeError"}
                                /\ result = <<>>

\* C4: for an existing float column the call fails with InsufficientData
\* exactly when n < k; the message carries k and n and no table is produced.
C4_InsufficientIffShort ==
    Done /\ FloatInput =>
        /\ n < k => outcome = InsufficientData /\ result = <<>>
        /\ n >= k => outcome.kind # "err"

C4_Witness ==
    /\ Done /\ FloatInput
    /\ n = 1 /\ k = 2
    /\ outcome.msg = "Not enough data points. Need at least 2 prices, got 1"

\* C5: an absent column gives ColumnNotFound naming the column, an existing
\* column that is not Float64 gives TypeMismatch, whatever k and the row
\* count are; neither gives InsufficientData or a table.
C5_ColumnErrors ==
    Done =>
        /\ ColumnAbsent =>
             /\ outcome = PyError("PyValueError",
                    "Column '" \o column \o "' not found: ColumnNotFound(" \o column \o ")")
             /\ result = <<>>
        /\ ~ColumnAbsent /\ NamedDtype # "f64" =>
             /\ outcome = PyError("PyValueError",
                    "Column must be numeric: SchemaMismatch(" \o NamedDtype \o ")")
             /\ result = <<>>

C5_Witness ==
    /\ Done
    /\ ~ColumnAbsent /\ NamedDtype = "str"
    /\ Len(pydf) = 2
    /\ k > n
    /\ outcome.msg = "Column must be numeric: SchemaMismatch(str)"

\* C6: the table of a successful call has exactly one column, a Float64
\* column named "<column>_return_<k>_day"; no column of the input is in it.
C6_OneNamedColumn ==
    Succeeded =>
        /\ Len(result) = 1
        /\ result[1].name = column \o "_return_" \o ToString(k) \o "_day"
        /\ result[1].dtype = "f64"
        /\ \A j \in 1..Len(pydf) : pydf[j].name # result[1].name

C6_Witness ==
    /\ Succeeded
    /\ Len(pydf) = 2
    /\ column = "price" /\ k = 2
    /\ result[1].name = "price_return_2_day"

\* C7: with 1 <= k <= n and some window start c[w] equal to zero, the call
\* succeeds with n - k + 1 rows, and row w is infinite when c[w+k-1] is not
\* zero and NaN when it is zero.
C7_ZeroStart ==
    Done /\ ValidWindow /\ (\E w \in 0..(n - k) : c[w + 1].cls = "zero") =>
        /\ outcome.kind = "ok"
        /\ Len(result) = 1
        /\ Len(OutVals) = n - k + 1
        /\ \A w \in 0..(n - k) :
             c[w + 1].cls = "zero" =>
                 OutVals[w + 1].cls = (IF c[w + k].cls = "zero" THEN "nan" ELSE "inf")

\* C8: no step of a call changes the table, the column name or k, and a
\* second call with the same arguments ends as the first did: the same error
\* or the same table (name, length, values).
C8_Idempotent ==
    /\ [](call = "second" /\ Done => <<outcome, result>> = prev)
    /\ [][pydf' = pydf /\ column' = column /\ k' = k]_vars

C8_Witness ==
    /\ call = "second" /\ Succeeded
    /\ prev[1].kind = "ok"
    /\ Len(OutVals) = 2
    /\ prev[2] = result

\* C9: in a call that returns a table (1 <= k <= n) the capacity reserved
\* before the loop is n - k + 1, the number of values pushed, so push never
\* reallocates.
C9_ReservedUpFront ==
    Succeeded /\ ValidWindow =>
        /\ reserved = n - k + 1
        /\ reserved = Len(OutVals)
        /\ grows = 0

\* C10: for a float column without missing values and 1 <= k <= n, every
\* index given to prices.get is in 0..n-1 (so i + k - 1 never wraps), no
\* unwrap fails, and a finished call has read exactly the indices i and
\* i + k - 1 for i in 0..n-k.
C10_IndexSafety ==
    ValidWindow /\ NoMissing =>
        /\ reads \subseteq 0..(n - 1)
        /\ outcome.kind # "panic"
        /\ pc = "loop" /\ i <= n - k => 0 <= i + k - 1 /\ i + k - 1 <= n - 1
        /\ Done => outcome.kind = "ok"
                   /\ reads = (0..(n - k)) \cup ((k - 1)..(n - 1))

C10_Witness ==
    /\ Succeeded /\ ValidWindow /\ NoMissing
    /\ k = 2 /\ n = 3
    /\ reads = {0, 1, 2}
====
